---- MODULE Spec2Model ----
(***************************************************************************)
(* The x402 pay-per-call gate of engrave-protocol: the routed inscription  *)
(* handler (inscribe.routes.js), the batch inscription handler             *)
(* (ordinals routes) and the standalone /api/inscribe app                  *)
(* (create_wallet.js).  Each handler is an async function; every `await`   *)
(* is a point where other requests may run, so each handler is cut into    *)
(* one action per synchronous segment.                                     *)
(* Also modelled: the unprotected endpoints, the bitcoin routes (address,  *)
(* fee estimate, transaction lookup), the dispatch of the beta router, the *)
(* bridge process and the wallet file handling of create_wallet.js.        *)
(***************************************************************************)
EXTENDS Integers, Sequences, FiniteSets, TLC

(* ------------------------------ bounds -------------------------------- *)
NumReqs == 2        \* request slots (requests that can be in flight)
MaxItems == 2       \* longest batch whose items are enumerated freely
MaxServed == 3      \* requests accepted over the server's lifetime
NumProofs == 2      \* distinct payment proofs clients hold
NumKeys == 5        \* distinct keypairs Keypair.generate() can return
MaxRuns == 3        \* runs of the wallet script
MaxIndexLen == 2    \* longest index query string

(* ------------------------- program constants -------------------------- *)
InscribePrice == 1000000
PricePerInscription == 1000000
MaxBatch == 10
StandalonePrice == 1000000

InscribeResource == "/api/inscribe"
BatchResource == "/api/ordinals/batch"
StandaloneResource == "BASE_API_URL/api/inscribe"

Reqs == 1..NumReqs
ProofIds == 1..NumProofs
Handlers == {"inscribeHandler", "batchInscribeHandler", "standalone"}

(* ----------------------------- inputs --------------------------------- *)
\* What one inscription request makes agentService.processInscriptionRequest do:
\* resolve with success true, resolve with success false, or reject.
ItemKinds == {"ok", "unsuccessful", "throws"}

RECURSIVE SeqsUpTo(_)
SeqsUpTo(n) ==
    IF n = 0 THEN {<<>>}
    ELSE LET shorter == SeqsUpTo(n - 1)
         IN  shorter \cup
             {Append(s, k) : s \in {t \in shorter : Len(t) = n - 1}, k \in ItemKinds}

\* Values of req.body.inscriptions: absent, present but not an array, or an
\* array (all short arrays, and arrays at and just over the batch limit).
Arrays ==
    SeqsUpTo(MaxItems)
    \cup {[j \in 1..n |-> k] : n \in {MaxBatch, MaxBatch + 1}, k \in {"ok", "throws"}}

InscriptionsInputs ==
    {[kind |-> "missing", items |-> <<>>], [kind |-> "notArray", items |-> <<>>]}
    \cup {[kind |-> "array", items |-> a] : a \in Arrays}

IsArray(v) == v.kind = "array"

\* PaymentRequirements as far as the handlers determine them.
Requirements(amount, resource) == [amount |-> amount, resource |-> resource]

NoRequirements == Requirements(0, "none")

\* What a client's proof was signed against.
SignedTargets ==
    {Requirements(InscribePrice, InscribeResource),
     Requirements(StandalonePrice, StandaloneResource),
     Requirements(0, "forged")}
    \cup {Requirements(n * PricePerInscription, BatchResource) :
             n \in (1..MaxItems) \cup {MaxBatch}}

\* The payment header of a request: absent, or a proof with an identifier.
NoHeader == [id |-> 0, signs |-> NoRequirements]
HeaderInputs == {NoHeader} \cup [id : ProofIds, signs : SignedTargets]

\* Headers sent to the routed inscription endpoint: none, a proof signed for
\* it, or a proof signed for something else.
InscribeHeaderInputs ==
    {NoHeader}
    \cup [id : ProofIds,
          signs : {Requirements(InscribePrice, InscribeResource),
                   Requirements(0, "forged")}]

\* JSON payloads of the protected actions: a single inscription result, or
\* the batch summary.
NoResult ==
    [success |-> "unset", results |-> <<>>, errors |-> <<>>,
     totalProcessed |-> 0, successCount |-> 0, errorCount |-> 0]

(* ------------------------------ state --------------------------------- *)
VARIABLES
    reqs,              \* per request slot: the handler's locals and its response
    consumed,          \* proof identifiers the verifier has admitted
    served,            \* requests accepted so far
    routesRegistered,  \* standalone app: app.get('/api/inscribe') registrations
    x402Instances,     \* standalone app: X402PaymentHandler objects constructed
    bridge,            \* the bridge process: the state of its current tool call
    wallet,            \* the wallet file and the script run working on it
    bitcoinService,    \* the shared bitcoinService object: its master key
    addr,              \* per request slot: locals of generateAddressHandler
    feeCall,           \* the fee-estimate request being answered
    txCall,            \* the transaction-lookup request being answered
    routeCall          \* the request being dispatched by the ordinals router

vars == <<reqs, consumed, served, routesRegistered, x402Instances, bridge,
          wallet, bitcoinService, addr, feeCall, txCall, routeCall>>

\* The variables of the payment gate and of the other endpoints.
gateVars == <<reqs, consumed, served, routesRegistered, x402Instances, bridge>>
sideVars == <<wallet, bitcoinService, addr, feeCall, txCall, routeCall>>

\* A JSON response body: its top-level fields, and the values that matter.
Body(fields, requirements, payload) ==
    [fields |-> fields, requirements |-> requirements, payload |-> payload,
     error |-> "none"]

\* A JSON error body: the value of its error field, and whether it carries
\* a message field next to it.
ErrorBody(error, withMessage) ==
    [Body(IF withMessage THEN {"error", "message"} ELSE {"error"},
          NoRequirements, NoResult) EXCEPT !.error = error]

NoBody == Body({}, NoRequirements, NoResult)

\* The bridge between tool invocations.
IdleBridge ==
    [state |-> "Idle", httpCalls |-> 0, pending |-> 0,
     requirements |-> NoRequirements, lastStatus |-> 0, outcome |-> "none"]

IdleRequest ==
    [pc |-> "idle", handler |-> "none", headers |-> NoHeader, body |-> "ok",
     inscriptions |-> [kind |-> "missing", items |-> <<>>],
     paymentHeader |-> NoHeader,
     paymentRequirements |-> NoRequirements, verified |-> "unset", i |-> 0,
     results |-> <<>>, errors |-> <<>>, result |-> NoResult,
     status |-> 0, resBody |-> NoBody, sends |-> 0,
     trace |-> <<>>,    \* history: calls and returns of verify, action, settle
     verifyArgs |-> NoRequirements,   \* history: requirements given to verifyPayment
     settleArgs |-> NoRequirements,   \* history: requirements given to settlePayment
     calls |-> <<>>]    \* history: the item index of each action invocation

(* ----------------------------- the wallet ----------------------------- *)
Seeds == 1..NumKeys

NoKeypair == [secretKey |-> <<>>, publicKey |-> 0]

\* A secret key is the seed followed by the public key derived from it
\* (one byte stands for each 32-byte half).
PublicOf(seed) == 100 + seed

\* Keypair.generate(), for the seed the random source yields.
Generate(seed) == [secretKey |-> <<seed, PublicOf(seed)>>, publicKey |-> PublicOf(seed)]

\* JSON.stringify(Array.from(secretKey)): the JSON text of an array of numbers.
Stringify(bytes) == [k \in 1..Len(bytes) |-> [number |-> bytes[k]]]

\* JSON.parse of that text, then Uint8Array.from: every element modulo 256.
ParseBytes(text) == [k \in 1..Len(text) |-> text[k].number % 256]

\* Keypair.fromSecretKey: the public key is the second half of the bytes.
fromSecretKey(bytes) == [secretKey |-> bytes, publicKey |-> bytes[Len(bytes)]]

\* No file, no run yet.
IdleWallet ==
    [exists |-> FALSE, content |-> <<>>,
     pc |-> "idle", keypair |-> NoKeypair,
     runs |-> 0, generated |-> 0, writes |-> 0,
     initial |-> [exists |-> FALSE, content |-> <<>>],  \* history: the file at the start
     loaded |-> <<>>,   \* history: the public key of each run that loaded
     saved |-> <<>>]    \* history: the public key of each key written

\* The wallet file as an earlier run of the script left it.
SavedWallet(seed) ==
    LET text == Stringify(Generate(seed).secretKey)
    IN  [IdleWallet EXCEPT !.exists = TRUE, !.content = text,
                           !.initial = [exists |-> TRUE, content |-> text]]

(* ------------------------ the other endpoints ------------------------- *)
IdleBitcoinService == [masterKey |-> "unset", initializeCalls |-> 0]

\* Strings are sequences of one-character strings.
DigitChars == <<"0", "1", "2", "3", "4", "5", "6", "7", "8", "9">>

IsDigit(c) == \E k \in 1..10 : DigitChars[k] = c

DigitVal(c) == (CHOOSE k \in 1..10 : DigitChars[k] = c) - 1

\* The result of parseInt: NaN, or an integer.
NaN == [nan |-> TRUE, val |-> 0]

RECURSIVE StripLeft(_)
StripLeft(str) ==
    IF str # <<>> /\ Head(str) = " " THEN StripLeft(Tail(str)) ELSE str

RECURSIVE DigitPrefix(_)
DigitPrefix(str) ==
    IF str # <<>> /\ IsDigit(Head(str))
    THEN <<Head(str)>> \o DigitPrefix(Tail(str)) ELSE <<>>

RECURSIVE DecimalValue(_)
DecimalValue(ds) ==
    IF ds = <<>> THEN 0
    ELSE 10 * DecimalValue(SubSeq(ds, 1, Len(ds) - 1)) + DigitVal(ds[Len(ds)])

\* parseInt(str, 10): leading white space is skipped, a sign is read, then
\* the longest run of digits; whatever follows is ignored; no digit gives NaN.
parseInt(str) ==
    LET t == StripLeft(str)
        signed == t # <<>> /\ Head(t) \in {"-", "+"}
        ds == DigitPrefix(IF signed THEN Tail(t) ELSE t)
    IN  IF ds = <<>> THEN NaN
        ELSE [nan |-> FALSE,
              val |-> IF signed /\ Head(t) = "-" THEN 0 - DecimalValue(ds)
                      ELSE DecimalValue(ds)]

RECURSIVE StringsUpTo(_, _)
StringsUpTo(chars, n) ==
    IF n = 0 THEN {<<>>}
    ELSE LET shorter == StringsUpTo(chars, n - 1)
         IN  shorter \cup
             {Append(t, c) : t \in {u \in shorter : Len(u) = n - 1}, c \in chars}

\* req.query.index: absent, or the string after "index=".
NoIndex == [present |-> FALSE, str |-> <<>>]

IndexChars == {"0", "7", "-", ".", "x", " "}

IndexInputs ==
    {NoIndex} \cup [present : {TRUE}, str : StringsUpTo(IndexChars, MaxIndexLen)]

\* The few index values sent by requests that overlap in time.
IndexInputsConcurrent ==
    {NoIndex, [present |-> TRUE, str |-> <<"7">>], [present |-> TRUE, str |-> <<"x">>]}

IdleAddr ==
    [pc |-> "idle", index |-> NoIndex, addressIndex |-> NaN,
     status |-> 0, error |-> "none", message |-> "none", resIndex |-> 0,
     initialized |-> FALSE,   \* history: this request called initializeMasterKey
     generateArgs |-> <<>>,   \* history: the arguments given to generateAddress
     keyAtGenerate |-> <<>>]  \* history: the master key when generateAddress was called

\* A value of a JSON body field: absent, a number (whole, or whole and a
\* half) or a string.
Absent == [kind |-> "absent", whole |-> 0, half |-> FALSE, str |-> <<>>]

JsonNumber(whole, half) == [kind |-> "number", whole |-> whole, half |-> half, str |-> <<>>]

JsonString(str) == [kind |-> "string", whole |-> 0, half |-> FALSE, str |-> str]

JsonValues ==
    {Absent}
    \cup {JsonNumber(n, FALSE) : n \in {0 - 1, 0, 1, 2}} \cup {JsonNumber(2, TRUE)}
    \cup {JsonString(t) : t \in {<<>>, <<"0">>, <<"2">>, <<"2", "x">>, <<"x">>}}

\* JavaScript truthiness of such a value.
Truthy(v) ==
    CASE v.kind = "absent" -> FALSE
      [] v.kind = "number" -> v.whole # 0 \/ v.half
      [] OTHER -> v.str # <<>>

RECURSIVE DigitsOf(_)
DigitsOf(n) ==
    IF n < 10 THEN <<DigitChars[n + 1]>>
    ELSE DigitsOf(n \div 10) \o <<DigitChars[(n % 10) + 1]>>

\* The string parseInt makes of its argument before parsing it.
StringOf(v) ==
    IF v.kind = "string" THEN v.str
    ELSE (IF v.whole < 0 THEN <<"-">> \o DigitsOf(0 - v.whole) ELSE DigitsOf(v.whole))
         \o (IF v.half THEN <<".", "5">> ELSE <<>>)

NoEstimate ==
    [inputCount |-> 0, outputCount |-> 0, feeRate |-> 0, estimatedSize |-> 0,
     estimatedFee |-> <<>>]

IdleFeeCall ==
    [pc |-> "idle", inputCount |-> Absent, outputCount |-> Absent, feeRate |-> Absent,
     status |-> 0, message |-> "none", estimate |-> NoEstimate]

HexChars ==
    {"0", "1", "2", "3", "4", "5", "6", "7", "8", "9",
     "a", "b", "c", "d", "e", "f", "A", "B", "C", "D", "E", "F"}

\* Transaction ids as sent: of the right length or just off it, of one
\* repeated character with one position set to another character.
Txid(n, c, p, d) == [k \in 1..n |-> IF k = p THEN d ELSE c]

TxidInputs ==
    {Txid(n, c, p, d) : n \in {1, 63, 64, 65}, c \in {"a", "F", "0"},
                        p \in {1, 45, 46, 64}, d \in {"a", "9", "g", "-"}}

NoTransaction == [txid |-> <<>>, blockHash |-> <<>>]

IdleTxCall ==
    [pc |-> "idle", txid |-> <<>>, status |-> 0, message |-> "none",
     transaction |-> NoTransaction]

\* Requests to the beta router: a method and the path segments after /api/beta.
Methods == {"GET", "POST"}

Segments == {"ordinals", "inscribe", "stats", "STATS", "address", "batch", "abc"}

MaxSegments == 3

Paths == UNION {[1..n -> Segments] : n \in 1..MaxSegments}

IdleRouteCall ==
    [pc |-> "idle", method |-> "GET", path |-> <<>>,
     invoked |-> <<>>,  \* the handlers run for the request, in order
     id |-> "none"]     \* req.params.id as getInscriptionHandler saw it

\* The server after start-up: nothing requested yet.
InitServer ==
    /\ reqs = [r \in Reqs |-> IdleRequest]
    /\ consumed = {}
    /\ served = 0
    /\ routesRegistered = 0
    /\ x402Instances = 0
    /\ bridge = IdleBridge
    /\ bitcoinService = IdleBitcoinService
    /\ addr = [r \in Reqs |-> IdleAddr]
    /\ feeCall = IdleFeeCall
    /\ txCall = IdleTxCall
    /\ routeCall = IdleRouteCall

Init ==
    /\ InitServer
    /\ wallet = IdleWallet

\* The wallet script may find a file left by an earlier run.
InitWallet ==
    /\ InitServer
    /\ wallet \in {IdleWallet} \cup {SavedWallet(seed) : seed \in Seeds}

(* ------------------------- response helpers --------------------------- *)
\* res.status(s).json(b): the handler returns right after sending.
Respond(rq, s, b) ==
    [rq EXCEPT !.pc = "done", !.status = s, !.resBody = b, !.sends = @ + 1]

Log(rq, e) == [rq EXCEPT !.trace = Append(@, e)]

\* The catch block of each handler.
CatchBody(h) == ErrorBody("Internal server error", h # "standalone")

\* Variant: a failed call sends the caller back to the payment challenge.
CatchRechallenges(rq) ==
    Respond(rq, 402, Body({"requirements"}, rq.paymentRequirements, NoResult))

Catch(rq) == Respond(rq, 500, CatchBody(rq.handler))

BadRequest(rq) ==
    Respond(rq, 400, ErrorBody("Bad Request", TRUE))

\* The body sent when verifyPayment returned a falsy value.
RejectedBody(h) == ErrorBody("Invalid payment", h # "standalone")

(* ------------------------ x402 service contract ----------------------- *)
\* A null return is represented by NoHeader.
extractPayment(headers) == IF headers.id = 0 THEN NoHeader ELSE headers

\* build(price, resource, description): fails only on a malformed price.
createPaymentRequirements(price, resource) ==
    IF price > 0 THEN Requirements(price, resource) ELSE NoRequirements

create402Response(requirements) ==
    [status |-> 402,
     body |-> Body({"requirements"}, requirements, NoResult)]

\* Variant: a verifier that keeps no record of admitted proofs.
verifyPaymentForgetsAdmitted(header, requirements, used) ==
    IF header.signs = requirements THEN "true" ELSE "false"

\* verify(proof, requirements): true iff the proof signs exactly these
\* requirements and its identifier has not been admitted before.
verifyPayment(header, requirements, used) ==
    IF header.signs = requirements /\ header.id \notin used
    THEN "true" ELSE "false"

\* The admit decision and the insertion of the proof identifier are one step.
Admit(used, header, v) == IF v = "true" THEN used \cup {header.id} ELSE used

\* A call to the verifier either completes with its answer or fails.
VerifyOutcomes(header, requirements, used) ==
    {"throw", verifyPayment(header, requirements, used)}

\* A call to settlement completes with a receipt, successful or not, or fails.
SettleOutcomes == {"settled", "unsuccessful", "throw"}

\* An awaited createPaymentRequirements call completes or fails.
RequirementsOutcomes == {"ok", "throw"}

(* --------------------------- handler inputs --------------------------- *)
\* Variant: the batch is priced as one inscription whatever its length.
HandlerPriceFlat(rq) ==
    CASE rq.handler = "inscribeHandler" -> InscribePrice
      [] rq.handler = "batchInscribeHandler" -> PricePerInscription
      [] OTHER -> StandalonePrice

\* The (price, resource) each handler passes to createPaymentRequirements.
HandlerPrice(rq) ==
    CASE rq.handler = "inscribeHandler" -> InscribePrice
      [] rq.handler = "batchInscribeHandler" ->
             Len(rq.inscriptions.items) * PricePerInscription
      [] OTHER -> StandalonePrice

HandlerResource(rq) ==
    CASE rq.handler = "inscribeHandler" -> InscribeResource
      [] rq.handler = "batchInscribeHandler" -> BatchResource
      [] OTHER -> StandaloneResource

\* Where each handler is mounted: the prefix of router.use (or the app's base
\* URL) and the path of the route inside that router.
MountPrefix(h) ==
    CASE h = "inscribeHandler" -> "/api/beta"
      [] h = "batchInscribeHandler" -> "/api/beta/ordinals"
      [] OTHER -> "BASE_API_URL"

RoutePath(h) ==
    CASE h = "inscribeHandler" -> "/inscribe"
      [] h = "batchInscribeHandler" -> "/batch"
      [] OTHER -> "/api/inscribe"

ServedPath(h) == MountPrefix(h) \o RoutePath(h)

(* ---------------------------- the handlers ---------------------------- *)
\* Variant: the emptiness check is missing.
BatchRejectsAllowsEmpty(inscriptions) ==
    \/ ~IsArray(inscriptions)
    \/ Len(inscriptions.items) > MaxBatch

\* Variant: the size limit is compared with >= one too far.
BatchRejectsAllowsEleven(inscriptions) ==
    \/ ~IsArray(inscriptions)
    \/ Len(inscriptions.items) = 0
    \/ Len(inscriptions.items) > MaxBatch + 1

\* Request validation of the batch handler: the two 400 checks.
BatchRejects(inscriptions) ==
    \/ ~IsArray(inscriptions)
    \/ Len(inscriptions.items) = 0
    \/ Len(inscriptions.items) > MaxBatch

\* Variant: the payment header is read before the body is validated.
EnterHandlerExtractsFirst(rq) ==
    LET rq1 == [rq EXCEPT !.paymentHeader = extractPayment(rq.headers)]
    IN  IF rq.handler = "batchInscribeHandler" /\ BatchRejects(rq.inscriptions)
        THEN BadRequest(rq1)
        ELSE [rq1 EXCEPT !.pc = "createPaymentRequirements"]

\* First synchronous segment: up to the await of createPaymentRequirements.
EnterHandler(rq) ==
    IF rq.handler = "batchInscribeHandler" /\ BatchRejects(rq.inscriptions)
    THEN BadRequest(rq)
    ELSE [rq EXCEPT !.paymentHeader = extractPayment(rq.headers),
                    !.pc = "createPaymentRequirements"]

\* The call of the protected action (for the batch, of item i of the loop).
CallAction(rq) ==
    Log([rq EXCEPT !.pc = "action", !.calls = Append(@, rq.i)], "action")

\* Variant: settlement is called with requirements rebuilt at a flat price.
CallSettleRebuilds(rq) ==
    Log([rq EXCEPT !.pc = "settlePayment",
                   !.settleArgs = Requirements(PricePerInscription,
                                               rq.paymentRequirements.resource)],
        "settle")

CallSettle(rq) ==
    Log([rq EXCEPT !.pc = "settlePayment", !.settleArgs = rq.paymentRequirements],
        "settle")

\* Variant: a present header is taken as payment without verification.
AfterRequirementsSkipsVerify(rq, o) ==
    IF o = "throw" THEN Catch(rq)
    ELSE LET pr == createPaymentRequirements(HandlerPrice(rq), HandlerResource(rq))
             rq1 == [rq EXCEPT !.paymentRequirements = pr]
             response == create402Response(pr)
         IN  IF rq1.paymentHeader = NoHeader
             THEN Respond(rq1, response.status, response.body)
             ELSE CallAction(rq1)

\* Second segment: requirements built; challenge, or call verifyPayment.
AfterRequirements(rq, o) ==
    IF o = "throw" THEN Catch(Log(rq, "requirements:throw"))
    ELSE LET pr == createPaymentRequirements(HandlerPrice(rq), HandlerResource(rq))
             rq1 == [rq EXCEPT !.paymentRequirements = pr]
             response == create402Response(pr)
         IN  IF pr = NoRequirements THEN Catch(Log(rq, "requirements:throw"))
             ELSE IF rq1.paymentHeader = NoHeader
             THEN Respond(rq1, response.status, response.body)
             ELSE Log([rq1 EXCEPT !.pc = "verifyPayment", !.verifyArgs = pr],
                      "verify")

\* Variant: the falsy result of verifyPayment does not stop the handler.
AfterVerifyActsOnFalse(rq, v) ==
    CASE v = "throw" -> Catch(Log(rq, "verify:throw"))
      [] v = "false" ->
            CallAction(Log([rq EXCEPT !.verified = "false"], "verify:false"))
      [] OTHER ->
            CallAction(Log([rq EXCEPT !.verified = "true"], "verify:true"))

\* Variant: settlement is called as soon as the payment is verified.
AfterVerifySettlesFirst(rq, v) ==
    CASE v = "throw" -> Catch(Log(rq, "verify:throw"))
      [] v = "false" ->
            Respond(Log([rq EXCEPT !.verified = "false"], "verify:false"),
                    402, RejectedBody(rq.handler))
      [] OTHER ->
            CallSettle(Log([rq EXCEPT !.verified = "true"], "verify:true"))

\* Third segment: verifyPayment returned v (or threw).
AfterVerify(rq, v) ==
    CASE v = "throw" -> Catch(Log(rq, "verify:throw"))
      [] v = "false" ->
            Respond(Log([rq EXCEPT !.verified = "false"], "verify:false"),
                    402, RejectedBody(rq.handler))
      [] OTHER ->
            CallAction(Log([rq EXCEPT !.verified = "true"], "verify:true"))

\* runAgentTask() takes no parameter and reads req.body: req is not in
\* scope there, so the read raises a ReferenceError.
runAgentTask == "throws"

\* What the protected action awaited by the handler does.
ActionOutcome(rq) ==
    CASE rq.handler = "inscribeHandler" -> rq.body
      [] rq.handler = "batchInscribeHandler" -> rq.inscriptions.items[rq.i + 1]
      [] OTHER -> runAgentTask

SuccessOf(o) == IF o = "ok" THEN "true" ELSE "false"

\* Fourth segment of the single-action handlers.
AfterSingleAction(rq, o) ==
    IF o = "throws" THEN Catch(Log(rq, "action:throw"))
    ELSE CallSettle(Log([rq EXCEPT !.result = [NoResult EXCEPT !.success = SuccessOf(o)]],
                        "action:return"))

\* Variant: the loop bound is off by one and the last item is never processed.
AfterBatchItemSkipsLast(rq, o) ==
    LET pushed ==
            IF o = "throws"
            THEN Log([rq EXCEPT !.errors = Append(@, [index |-> rq.i])], "action:throw")
            ELSE Log([rq EXCEPT !.results =
                          Append(@, [index |-> rq.i, success |-> SuccessOf(o)])],
                     "action:return")
        next == [pushed EXCEPT !.i = @ + 1]
    IN  IF next.i < Len(next.inscriptions.items) - 1
        THEN CallAction(next)
        ELSE CallSettle(next)

\* One iteration of the batch loop resumes: push to results or errors, then
\* either call the next item's action or leave the loop and call settlement.
AfterBatchItem(rq, o) ==
    LET pushed ==
            IF o = "throws"
            THEN Log([rq EXCEPT !.errors = Append(@, [index |-> rq.i])], "action:throw")
            ELSE Log([rq EXCEPT !.results =
                          Append(@, [index |-> rq.i, success |-> SuccessOf(o)])],
                     "action:return")
        next == [pushed EXCEPT !.i = @ + 1]
    IN  IF next.i < Len(next.inscriptions.items)
        THEN CallAction(next)
        ELSE CallSettle(next)

AfterAction(rq, o) ==
    IF rq.handler = "batchInscribeHandler"
    THEN AfterBatchItem(rq, o)
    ELSE AfterSingleAction(rq, o)

SuccessCount(results) ==
    Cardinality({k \in 1..Len(results) : results[k].success = "true"})

\* Variant: the summary counts only the items whose action returned.
BatchSummaryCountsReturned(rq) ==
    [success |-> "true", results |-> rq.results, errors |-> rq.errors,
     totalProcessed |-> Len(rq.results),
     successCount |-> SuccessCount(rq.results),
     errorCount |-> Len(rq.errors)]

\* The body of the batch handler's 200 response.
BatchSummary(rq) ==
    [success |-> "true", results |-> rq.results, errors |-> rq.errors,
     totalProcessed |-> Len(rq.inscriptions.items),
     successCount |-> SuccessCount(rq.results),
     errorCount |-> Len(rq.errors)]

SuccessPayload(rq) ==
    IF rq.handler = "batchInscribeHandler" THEN BatchSummary(rq) ELSE rq.result

\* Last segment: settlePayment resumed; its return value is not looked at.
AfterSettle(rq, o) ==
    IF o = "throw" THEN Catch(Log(rq, "settle:throw"))
    ELSE Respond(Log(rq, IF o = "settled" THEN "settle:ok" ELSE "settle:unsuccessful"),
                 200, Body({"payload"}, NoRequirements, SuccessPayload(rq)))

(* ------------------------------ actions ------------------------------- *)
NewRequest(h, hdr, b, ins) ==
    [IdleRequest EXCEPT !.handler = h, !.headers = hdr, !.body = b,
                        !.inscriptions = ins]

\* The request inputs each handler reads.
BodyInputs(h) == IF h = "inscribeHandler" THEN ItemKinds ELSE {"ok"}
ArrayInputs(h) ==
    IF h = "batchInscribeHandler" THEN InscriptionsInputs
    ELSE {[kind |-> "missing", items |-> <<>>]}

\* The standalone app's middleware runs for every request before the route:
\* it constructs a payment handler and registers the route again.
Middleware(h) ==
    /\ routesRegistered' = IF h = "standalone" THEN routesRegistered + 1
                           ELSE routesRegistered
    /\ x402Instances' = IF h = "standalone" THEN x402Instances + 1
                        ELSE x402Instances

Accept(r, hs, hdrs) ==
    /\ reqs[r].pc = "idle"
    /\ served < MaxServed
    /\ \E h \in hs, hdr \in hdrs :
         \E b \in BodyInputs(h), ins \in ArrayInputs(h) :
            /\ reqs' = [reqs EXCEPT ![r] = EnterHandler(NewRequest(h, hdr, b, ins))]
            /\ Middleware(h)
    /\ served' = served + 1
    /\ UNCHANGED <<consumed, sideVars>>

\* A request arrives while no other request is being handled.
Begin(r) ==
    /\ \A q \in Reqs : reqs[q].pc = "idle"
    /\ Accept(r, Handlers, HeaderInputs)
    /\ UNCHANGED bridge

\* A request to the routed inscription endpoint arrives at any time.
BeginConcurrent(r) ==
    /\ Accept(r, {"inscribeHandler"}, InscribeHeaderInputs)
    /\ UNCHANGED bridge

RequirementsReturn(r) ==
    /\ reqs[r].pc = "createPaymentRequirements"
    /\ \E o \in RequirementsOutcomes :
         reqs' = [reqs EXCEPT ![r] = AfterRequirements(reqs[r], o)]
    /\ UNCHANGED <<consumed, served, routesRegistered, x402Instances, bridge, sideVars>>

VerifyReturn(r) ==
    /\ reqs[r].pc = "verifyPayment"
    /\ \E v \in VerifyOutcomes(reqs[r].paymentHeader, reqs[r].paymentRequirements,
                                consumed) :
         /\ reqs' = [reqs EXCEPT ![r] = AfterVerify(reqs[r], v)]
         /\ consumed' = Admit(consumed, reqs[r].paymentHeader, v)
    /\ UNCHANGED <<served, routesRegistered, x402Instances, bridge, sideVars>>

ActionReturn(r) ==
    /\ reqs[r].pc = "action"
    /\ reqs' = [reqs EXCEPT ![r] = AfterAction(reqs[r], ActionOutcome(reqs[r]))]
    /\ UNCHANGED <<consumed, served, routesRegistered, x402Instances, bridge, sideVars>>

SettleReturn(r) ==
    /\ reqs[r].pc = "settlePayment"
    /\ \E o \in SettleOutcomes :
         reqs' = [reqs EXCEPT ![r] = AfterSettle(reqs[r], o)]
    /\ UNCHANGED <<consumed, served, routesRegistered, x402Instances, bridge, sideVars>>

\* The response has gone out; the handler's locals are dropped.
Finish(r) ==
    /\ reqs[r].pc = "done"
    /\ reqs' = [reqs EXCEPT ![r] = IdleRequest]
    /\ UNCHANGED <<consumed, served, routesRegistered, x402Instances, bridge, sideVars>>

(* ----------------------- unprotected endpoints ------------------------ *)
PublicHandlers == {"health", "getNetworkInfoHandler", "getStatsHandler"}

\* bitcoinService.getNetworkInfo() returns the static network description.
NetworkInfoOutcomes == {"ok"}

\* Variant: the handler asks for payment when no payment header is sent.
ServePublicGated(rq, o) ==
    IF rq.headers = NoHeader
    THEN Respond(rq, 402, Body({"requirements"},
                               Requirements(InscribePrice, InscribeResource), NoResult))
    ELSE Respond(rq, 200, Body({"payload"}, NoRequirements,
                               [NoResult EXCEPT !.success = "true"]))

\* /health, GET /network and GET /stats: one synchronous segment each; the
\* latter two answer 500 from their catch block if getNetworkInfo throws.
ServePublic(rq, o) ==
    IF rq.handler # "health" /\ o = "throws"
    THEN Respond(rq, 500, ErrorBody("Internal Server Error", TRUE))
    ELSE Respond(rq, 200, Body({"payload"}, NoRequirements,
                               IF rq.handler = "health" THEN NoResult
                               ELSE [NoResult EXCEPT !.success = "true"]))

PublicRequest(r) ==
    /\ reqs[r].pc = "idle"
    /\ served < MaxServed
    /\ \E h \in PublicHandlers, hdr \in HeaderInputs, o \in NetworkInfoOutcomes :
         reqs' = [reqs EXCEPT ![r] =
                     ServePublic(NewRequest(h, hdr, "ok", IdleRequest.inscriptions), o)]
    /\ served' = served + 1
    /\ UNCHANGED <<consumed, routesRegistered, x402Instances, bridge, sideVars>>

(* ------------------------------ the bridge ---------------------------- *)
\* A tool invocation arrives on the bridge's channel.
BridgeInvoke ==
    /\ bridge.state \in {"Idle", "Done"}
    /\ bridge' = [IdleBridge EXCEPT !.state = "Unattempted"]
    /\ UNCHANGED <<reqs, consumed, served, routesRegistered, x402Instances, sideVars>>

\* The header of the bridge's next HTTP call: on the first call what the
\* caller holds (nothing, or a proof made beforehand); on the retry a proof
\* signed against the requirements returned by the challenge.
BridgeHeaders(b) ==
    IF b.state = "Challenged"
    THEN [id : ProofIds, signs : {b.requirements}]
    ELSE InscribeHeaderInputs

\* The bridge issues an HTTP call to the inscription endpoint.
BridgeSend(r) ==
    /\ bridge.state \in {"Unattempted", "Challenged"}
    /\ bridge.pending = 0
    /\ Accept(r, {"inscribeHandler"}, BridgeHeaders(bridge))
    /\ bridge' = [bridge EXCEPT !.httpCalls = @ + 1, !.pending = r,
                                !.state = IF @ = "Challenged" THEN "Retried" ELSE @]

\* Variant: a failed retry sends the bridge back to sign and try again.
OnResponseKeepsRetrying(b, status, body) ==
    LET got == [b EXCEPT !.pending = 0, !.lastStatus = status]
    IN  IF status = 200
        THEN [got EXCEPT !.state = "Done", !.outcome = "success"]
        ELSE IF status = 402 /\ "requirements" \in body.fields
        THEN [got EXCEPT !.state = "Challenged", !.requirements = body.requirements]
        ELSE IF b.state = "Retried"
        THEN [got EXCEPT !.state = "Challenged"]
        ELSE [got EXCEPT !.state = "Done", !.outcome = "failure"]

\* The two-step 402 dance: a challenge to the first call leads to one retry;
\* every other answer, and every answer to the retry, ends the tool call.
OnResponse(b, status, body) ==
    LET got == [b EXCEPT !.pending = 0, !.lastStatus = status]
    IN  IF status = 200
        THEN [got EXCEPT !.state = "Done", !.outcome = "success"]
        ELSE IF b.state = "Unattempted" /\ status = 402
                /\ "requirements" \in body.fields
        THEN [got EXCEPT !.state = "Challenged", !.requirements = body.requirements]
        ELSE [got EXCEPT !.state = "Done", !.outcome = "failure"]

\* The HTTP response reaches the bridge.
BridgeReceive(r) ==
    /\ bridge.pending = r
    /\ reqs[r].pc = "done"
    /\ bridge' = OnResponse(bridge, reqs[r].status, reqs[r].resBody)
    /\ reqs' = [reqs EXCEPT ![r] = IdleRequest]
    /\ UNCHANGED <<consumed, served, routesRegistered, x402Instances, sideVars>>

(* -------------------------- the wallet script ------------------------- *)
\* Variant: the script does not look for an existing file.
WalletBranchAlwaysGenerates(exists) == "generate"

\* if (fs.existsSync(walletFile)) ... else ...
WalletBranch(exists) == IF exists THEN "load" ELSE "generate"

\* What the script finds in process.env.
EnvInputs == {"complete", "noTreasury", "noBaseUrl"}

\* A run of the script starts (the previous one, if any, has ended).
StartRun ==
    /\ wallet.pc \in {"idle", "exited", "listening"}
    /\ wallet.runs < MaxRuns
    /\ wallet' = [wallet EXCEPT !.pc = WalletBranch(wallet.exists),
                                !.keypair = NoKeypair, !.runs = @ + 1]
    /\ UNCHANGED <<gateVars, bitcoinService, addr, feeCall, txCall, routeCall>>

\* Load existing wallet: read the file and restore the keypair.
LoadWallet ==
    /\ wallet.pc = "load"
    /\ LET kp == fromSecretKey(ParseBytes(wallet.content))
       IN  wallet' = [wallet EXCEPT !.pc = "checkEnv", !.keypair = kp,
                                    !.loaded = Append(@, kp.publicKey)]
    /\ UNCHANGED <<gateVars, bitcoinService, addr, feeCall, txCall, routeCall>>

\* Generate new wallet: create a new keypair.
GenerateWallet ==
    /\ wallet.pc = "generate"
    /\ \E seed \in Seeds :
         wallet' = [wallet EXCEPT !.pc = "save", !.keypair = Generate(seed),
                                  !.generated = @ + 1]
    /\ UNCHANGED <<gateVars, bitcoinService, addr, feeCall, txCall, routeCall>>

\* fs.writeFileSync(walletFile, JSON.stringify(Array.from(keypair.secretKey)))
SaveWallet ==
    /\ wallet.pc = "save"
    /\ wallet' = [wallet EXCEPT !.pc = "checkEnv", !.exists = TRUE,
                                !.content = Stringify(wallet.keypair.secretKey),
                                !.writes = @ + 1,
                                !.saved = Append(@, wallet.keypair.publicKey)]
    /\ UNCHANGED <<gateVars, bitcoinService, addr, feeCall, txCall, routeCall>>

\* The environment checks: exit(1) if a variable is missing, else app.listen.
CheckEnv ==
    /\ wallet.pc = "checkEnv"
    /\ \E env \in EnvInputs :
         wallet' = [wallet EXCEPT !.pc = IF env = "complete" THEN "listening"
                                         ELSE "exited"]
    /\ UNCHANGED <<gateVars, bitcoinService, addr, feeCall, txCall, routeCall>>

(* ----------------------- generateAddressHandler ----------------------- *)
AddrRespond(rq, status, error, message) ==
    [rq EXCEPT !.pc = "done", !.status = status, !.error = error,
               !.message = message]

\* From the parse of the index to the call of generateAddress.
AddressValidate(rq, service) ==
    LET addressIndex == IF rq.index.present /\ rq.index.str # <<>>
                        THEN parseInt(rq.index.str) ELSE [nan |-> FALSE, val |-> 0]
        rq1 == [rq EXCEPT !.addressIndex = addressIndex]
    IN  IF addressIndex.nan \/ addressIndex.val < 0
        THEN AddrRespond(rq1, 400, "Bad Request", "Index must be a non-negative integer")
        ELSE [rq1 EXCEPT !.pc = "generateAddress",
                         !.generateArgs = Append(@, addressIndex.val),
                         !.keyAtGenerate = Append(@, service.masterKey)]

\* First segment: the master key is initialized if the service has none.
AddressEnter(rq, service) ==
    IF service.masterKey = "unset"
    THEN [rq EXCEPT !.pc = "initializeMasterKey", !.initialized = TRUE]
    ELSE AddressValidate(rq, service)

\* An awaited call of bitcoinService completes or throws.
ServiceOutcomes == {"ok", "throw"}

\* initializeMasterKey is asynchronous: the service has its master key when
\* the call completes.
initializeMasterKey(service) == [service EXCEPT !.masterKey = "set"]

AddressAccept(r, inputs) ==
    /\ addr[r].pc = "idle"
    /\ served < MaxServed
    /\ \E index \in inputs :
         addr' = [addr EXCEPT ![r] =
                     AddressEnter([IdleAddr EXCEPT !.index = index], bitcoinService)]
    /\ bitcoinService' =
          IF bitcoinService.masterKey = "unset"
          THEN [bitcoinService EXCEPT !.initializeCalls = @ + 1]
          ELSE bitcoinService
    /\ served' = served + 1
    /\ UNCHANGED <<reqs, consumed, routesRegistered, x402Instances, bridge,
                   wallet, feeCall, txCall, routeCall>>

\* GET /address arrives while no other address request is being handled.
AddressBegin(r) ==
    /\ \A q \in Reqs : addr[q].pc = "idle"
    /\ AddressAccept(r, IndexInputs)

\* GET /address arrives at any time.
AddressBeginConcurrent(r) == AddressAccept(r, IndexInputsConcurrent)

\* initializeMasterKey resumes: the key is set when the call completes.
InitializeReturn(r) ==
    /\ addr[r].pc = "initializeMasterKey"
    /\ \E o \in ServiceOutcomes :
         IF o = "throw"
         THEN /\ addr' = [addr EXCEPT ![r] =
                    AddrRespond(addr[r], 500, "Internal Server Error", "error.message")]
              /\ UNCHANGED bitcoinService
         ELSE /\ bitcoinService' = initializeMasterKey(bitcoinService)
              /\ addr' = [addr EXCEPT ![r] = AddressValidate(addr[r], bitcoinService')]
    /\ UNCHANGED <<gateVars, wallet, feeCall, txCall, routeCall>>

\* generateAddress resumes.
GenerateReturn(r) ==
    /\ addr[r].pc = "generateAddress"
    /\ \E o \in ServiceOutcomes :
         addr' = [addr EXCEPT ![r] =
                     IF o = "throw"
                     THEN AddrRespond(addr[r], 500, "Internal Server Error", "error.message")
                     ELSE [AddrRespond(addr[r], 200, "none", "none")
                              EXCEPT !.resIndex = addr[r].addressIndex.val]]
    /\ UNCHANGED <<gateVars, wallet, bitcoinService, feeCall, txCall, routeCall>>

\* The response has gone out.
AddressFinish(r) ==
    /\ addr[r].pc = "done"
    /\ addr' = [addr EXCEPT ![r] = IdleAddr]
    /\ UNCHANGED <<gateVars, wallet, bitcoinService, feeCall, txCall, routeCall>>

(* -------------------------- estimateFeeHandler ------------------------ *)
\* bitcoinService.estimateTransactionFee: a value determined by its arguments.
estimateTransactionFee(inputs, outputs, rate) == <<inputs, outputs, rate>>

estimateFeeHandler(inputCount, outputCount, feeRate) ==
    LET rq == [IdleFeeCall EXCEPT !.pc = "done", !.inputCount = inputCount,
                                  !.outputCount = outputCount, !.feeRate = feeRate]
        inputs == parseInt(StringOf(inputCount))
        outputs == parseInt(StringOf(outputCount))
        rate == IF Truthy(feeRate) THEN parseInt(StringOf(feeRate))
                ELSE [nan |-> FALSE, val |-> 10]
    IN  IF ~Truthy(inputCount) \/ ~Truthy(outputCount)
        THEN [rq EXCEPT !.status = 400,
                        !.message = "inputCount and outputCount are required"]
        ELSE IF \/ inputs.nan \/ outputs.nan \/ rate.nan
                \/ inputs.val < 1 \/ outputs.val < 1 \/ rate.val < 1
        THEN [rq EXCEPT !.status = 400,
                        !.message = "inputCount, outputCount, and feeRate must be positive integers"]
        ELSE [rq EXCEPT !.status = 200,
                        !.estimate =
                            [inputCount |-> inputs.val, outputCount |-> outputs.val,
                             feeRate |-> rate.val,
                             estimatedSize |-> (inputs.val * 68) + (outputs.val * 31) + 11,
                             estimatedFee |->
                                 estimateTransactionFee(inputs.val, outputs.val, rate.val)]]

\* POST /fee-estimate: the handler has no await, it answers in one step.
EstimateFee ==
    /\ feeCall.pc = "idle"
    /\ \E inputCount \in JsonValues, outputCount \in JsonValues, feeRate \in JsonValues :
         feeCall' = estimateFeeHandler(inputCount, outputCount, feeRate)
    /\ UNCHANGED <<gateVars, wallet, bitcoinService, addr, txCall, routeCall>>

\* The response has gone out.
FeeFinish ==
    /\ feeCall.pc = "done"
    /\ feeCall' = IdleFeeCall
    /\ UNCHANGED <<gateVars, wallet, bitcoinService, addr, txCall, routeCall>>

(* ------------------------- getTransactionHandler ---------------------- *)
\* /^[a-fA-F0-9]{64}$/.test(txid)
IsTxid(txid) ==
    Len(txid) = 64 /\ \A k \in 1..Len(txid) : txid[k] \in HexChars

\* Variant: the literal prefix of the block hash is one character short.
BlockHashPrefixShort == [k \in 1..18 |-> "0"]

\* The literal '0000000000000000000'.
BlockHashPrefix == [k \in 1..19 |-> "0"]

\* txid.substring(0, 45)
Substring45(txid) == SubSeq(txid, 1, IF Len(txid) < 45 THEN Len(txid) ELSE 45)

getTransactionHandler(txid, o) ==
    LET rq == [IdleTxCall EXCEPT !.pc = "done", !.txid = txid]
    IN  IF txid = <<>>
        THEN [rq EXCEPT !.status = 400, !.message = "Transaction ID is required"]
        ELSE IF ~IsTxid(txid)
        THEN [rq EXCEPT !.status = 400, !.message = "Invalid transaction ID format"]
        ELSE IF o = "throws"
        THEN [rq EXCEPT !.status = 500, !.message = "error.message"]
        ELSE [rq EXCEPT !.status = 200,
                        !.transaction =
                            [txid |-> txid,
                             blockHash |-> BlockHashPrefix \o Substring45(txid)]]

\* GET /tx/:txid: answered in one step.
GetTransaction ==
    /\ txCall.pc = "idle"
    /\ \E txid \in TxidInputs, o \in NetworkInfoOutcomes :
         txCall' = getTransactionHandler(txid, o)
    /\ UNCHANGED <<gateVars, wallet, bitcoinService, addr, feeCall, routeCall>>

\* The response has gone out.
TxFinish ==
    /\ txCall.pc = "done"
    /\ txCall' = IdleTxCall
    /\ UNCHANGED <<gateVars, wallet, bitcoinService, addr, feeCall, routeCall>>

(* --------------------------- route dispatch --------------------------- *)
Lit(name) == [kind |-> "lit", name |-> name]

Param(name) == [kind |-> "param", name |-> name]

Route(method, pattern, handler) ==
    [method |-> method, pattern |-> pattern, handler |-> handler]

\* Variant: the parameter route is registered before the literal ones.
BetaRoutesIdFirst ==
    <<Route("GET", <<Lit("inscribe")>>, "inscribeHandler"),
      Route("GET", <<Lit("ordinals"), Param("id")>>, "getInscriptionHandler"),
      Route("GET", <<Lit("ordinals"), Lit("stats")>>, "getStatsHandler"),
      Route("GET", <<Lit("ordinals"), Lit("address"), Param("address")>>,
            "listInscriptionsByAddressHandler"),
      Route("POST", <<Lit("ordinals"), Lit("batch")>>, "batchInscribeHandler")>>

\* The routes reachable under /api/beta, in registration order: the
\* inscription router, then the ordinals router mounted at /ordinals.
BetaRoutes ==
    <<Route("GET", <<Lit("inscribe")>>, "inscribeHandler"),
      Route("GET", <<Lit("ordinals"), Lit("stats")>>, "getStatsHandler"),
      Route("GET", <<Lit("ordinals"), Param("id")>>, "getInscriptionHandler"),
      Route("GET", <<Lit("ordinals"), Lit("address"), Param("address")>>,
            "listInscriptionsByAddressHandler"),
      Route("POST", <<Lit("ordinals"), Lit("batch")>>, "batchInscribeHandler")>>

\* Express compares literal path segments without regard to case.
Lower(segment) == IF segment = "STATS" THEN "stats" ELSE segment

\* A pattern matches a path of the same number of segments whose literal
\* segments agree; a parameter takes any one segment.
Matches(pattern, path) ==
    /\ Len(pattern) = Len(path)
    /\ \A k \in 1..Len(pattern) :
          pattern[k].kind = "lit" => Lower(path[k]) = pattern[k].name

\* None of the handlers calls next(): each sends its response and returns.
CallsNext(handler) == FALSE

\* The handlers run for a request, from layer k of the stack on.
RECURSIVE Dispatch(_, _, _)
Dispatch(method, path, k) ==
    IF k > Len(BetaRoutes) THEN <<>>
    ELSE LET route == BetaRoutes[k]
         IN  IF route.method = method /\ Matches(route.pattern, path)
             THEN <<route.handler>>
                  \o (IF CallsNext(route.handler) THEN Dispatch(method, path, k + 1)
                      ELSE <<>>)
             ELSE Dispatch(method, path, k + 1)

\* A request reaches the beta router and is dispatched.
DispatchRequest ==
    /\ routeCall.pc = "idle"
    /\ \E method \in Methods, path \in Paths :
         LET invoked == Dispatch(method, path, 1)
         IN  routeCall' =
                 [pc |-> "done", method |-> method, path |-> path, invoked |-> invoked,
                  id |-> IF \E k \in 1..Len(invoked) : invoked[k] = "getInscriptionHandler"
                         THEN path[2] ELSE "none"]
    /\ UNCHANGED <<gateVars, wallet, bitcoinService, addr, feeCall, txCall>>

\* The request has been answered (by a handler, or as not found).
DispatchFinish ==
    /\ routeCall.pc = "done"
    /\ routeCall' = IdleRouteCall
    /\ UNCHANGED <<gateVars, wallet, bitcoinService, addr, feeCall, txCall>>

Step(r) ==
    \/ RequirementsReturn(r)
    \/ VerifyReturn(r)
    \/ ActionReturn(r)
    \/ SettleReturn(r)
    \/ Finish(r)

Next == \E r \in Reqs : Begin(r) \/ Step(r)

Spec == Init /\ [][Next]_vars

\* Concurrent submissions: every slot is one submission, kept for comparison.
NextConcurrent ==
    \E r \in Reqs :
        \/ BeginConcurrent(r)
        \/ RequirementsReturn(r)
        \/ VerifyReturn(r)
        \/ ActionReturn(r)
        \/ SettleReturn(r)

SpecConcurrent == Init /\ [][NextConcurrent]_vars

\* Concurrent submissions over time: a finished request frees its slot.
NextRecycling ==
    \E r \in Reqs :
        \/ BeginConcurrent(r)
        \/ RequirementsReturn(r)
        \/ VerifyReturn(r)
        \/ ActionReturn(r)
        \/ SettleReturn(r)
        \/ Finish(r)

SpecRecycling == Init /\ [][NextRecycling]_vars

\* Runs of the wallet script, one after the other.
NextWallet == StartRun \/ LoadWallet \/ GenerateWallet \/ SaveWallet \/ CheckEnv

SpecWallet == InitWallet /\ [][NextWallet]_vars

\* The address endpoint, one request at a time.
NextAddress ==
    \E r \in Reqs :
        AddressBegin(r) \/ InitializeReturn(r) \/ GenerateReturn(r) \/ AddressFinish(r)

SpecAddress == Init /\ [][NextAddress]_vars

\* The address endpoint under overlapping requests.
NextAddressConcurrent ==
    \E r \in Reqs :
        \/ AddressBeginConcurrent(r)
        \/ InitializeReturn(r)
        \/ GenerateReturn(r)
        \/ AddressFinish(r)

SpecAddressConcurrent == Init /\ [][NextAddressConcurrent]_vars

\* The fee-estimate endpoint.
NextFee == EstimateFee \/ FeeFinish

SpecFee == Init /\ [][NextFee]_vars

\* The transaction-lookup endpoint.
NextTx == GetTransaction \/ TxFinish

SpecTx == Init /\ [][NextTx]_vars

\* The beta router.
NextDispatch == DispatchRequest \/ DispatchFinish

SpecDispatch == Init /\ [][NextDispatch]_vars

\* The unprotected endpoints, any number of requests at a time.
NextPublic == \E r \in Reqs : PublicRequest(r) \/ Finish(r)

SpecPublic == Init /\ [][NextPublic]_vars

\* The bridge in front of the routed inscription endpoint.
NextBridge ==
    \/ BridgeInvoke
    \/ \E r \in Reqs :
          \/ BridgeSend(r)
          \/ RequirementsReturn(r)
          \/ VerifyReturn(r)
          \/ ActionReturn(r)
          \/ SettleReturn(r)
          \/ BridgeReceive(r)

SpecBridge == Init /\ [][NextBridge]_vars

(* ------------------------- history predicates ------------------------- *)
Count(rq, e) == Cardinality({k \in 1..Len(rq.trace) : rq.trace[k] = e})

HasEvent(rq, e) == \E k \in 1..Len(rq.trace) : rq.trace[k] = e

\* Action invocations still awaiting their return after the first k events.
Running(rq, k) ==
    Cardinality({j \in 1..k : rq.trace[j] = "action"})
    - Cardinality({j \in 1..k : rq.trace[j] \in {"action:return", "action:throw"}})

Active == {r \in Reqs : reqs[r].pc # "idle"}

\* The number of protected-action invocations an admitted request owes.
Owed(rq) ==
    IF rq.handler = "batchInscribeHandler" THEN Len(rq.inscriptions.items) ELSE 1

(* ------------------------------ claims -------------------------------- *)
\* C1: in the challenge branch (no payment header) and in the rejected
\* branch (verifyPayment returned a falsy value) of every protected handler
\* the protected action has been invoked 0 times.
C1_NoActionWithoutAdmission ==
    \A r \in Active :
        (reqs[r].headers = NoHeader \/ reqs[r].verified = "false")
            => /\ Count(reqs[r], "action") = 0
               /\ reqs[r].calls = <<>>
               /\ reqs[r].pc # "action"

C1_Witness ==
    \E r \in Reqs :
        /\ reqs[r].pc = "done"
        /\ reqs[r].verified = "false"
        /\ reqs[r].status = 402
        /\ HasEvent(reqs[r], "verify:false")

\* C2: every invocation of the protected action is preceded, in the same
\* request, by a verifyPayment call that completed with a truthy result.
C2_VerifyBeforeAction ==
    \A r \in Active :
        \A k \in 1..Len(reqs[r].trace) :
            reqs[r].trace[k] = "action"
                => \E j \in 1..(k - 1) :
                      /\ reqs[r].trace[j] = "verify:true"
                      /\ \E c \in 1..(j - 1) : reqs[r].trace[c] = "verify"

C2_Witness ==
    \E r \in Reqs :
        /\ reqs[r].handler = "batchInscribeHandler"
        /\ reqs[r].pc = "action"
        /\ Count(reqs[r], "action") = 2

\* C3: settlePayment is invoked only after every protected action of the
\* request has been invoked and has completed (none is running, none starts
\* later), and only in a request whose verifyPayment call returned true.
C3_SettleAfterAction ==
    \A r \in Active :
        \A k \in 1..Len(reqs[r].trace) :
            reqs[r].trace[k] = "settle"
                => /\ \E j \in 1..(k - 1) : reqs[r].trace[j] = "verify:true"
                   /\ Running(reqs[r], k) = 0
                   /\ Cardinality({j \in 1..k : reqs[r].trace[j] = "action"})
                         = Owed(reqs[r])
                   /\ \A j \in (k + 1)..Len(reqs[r].trace) :
                         reqs[r].trace[j] # "action"
                   /\ reqs[r].verified = "true"

C3_Witness ==
    \E r \in Reqs :
        /\ reqs[r].handler = "inscribeHandler"
        /\ reqs[r].pc = "settlePayment"
        /\ HasEvent(reqs[r], "action:return")

\* C4: a 200 response is sent only after settlePayment was invoked for the
\* request and the settlement succeeded.
C4_SuccessOnlyWhenSettled ==
    \A r \in Active :
        reqs[r].status = 200 => HasEvent(reqs[r], "settle:ok")

\* C5: if the protected action raised a fault, settlePayment is not invoked
\* for that request.
C5_NoSettleAfterActionFault ==
    \A r \in Active :
        HasEvent(reqs[r], "action:throw") => ~HasEvent(reqs[r], "settle")

C6_Inputs(rq) ==
    CASE rq.handler = "inscribeHandler" -> Requirements(1000000, "/api/inscribe")
      [] rq.handler = "batchInscribeHandler" ->
             Requirements(Len(rq.inscriptions.items) * 1000000, "/api/ordinals/batch")
      [] OTHER -> Requirements(1000000, "BASE_API_URL/api/inscribe")

C7_RejectionHasErrorAndMessage ==
    \A r \in Active :
        (reqs[r].pc = "done" /\ reqs[r].verified = "false")
            => /\ reqs[r].status = 402
               /\ {"error", "message"} \subseteq reqs[r].resBody.fields

\* C8: in the routed inscription handler and in the standalone app, a request
\* whose proof verified and whose external calls did not fail is answered
\* with status 200 and the protected action's result as body.
C8_ValidProofGets200 ==
    \A r \in Active :
        ( /\ reqs[r].pc = "done"
          /\ reqs[r].handler \in {"inscribeHandler", "standalone"}
          /\ reqs[r].verified = "true"
          /\ ~HasEvent(reqs[r], "settle:throw")
          /\ reqs[r].handler = "inscribeHandler" => ~HasEvent(reqs[r], "action:throw") )
            => /\ reqs[r].status = 200
               /\ reqs[r].resBody.payload = reqs[r].result

\* The requests that submitted proof p, validly signed for the inscription
\* endpoint, and whose verifyPayment call has returned its decision.
Decided(p) ==
    {r \in Reqs :
        /\ reqs[r].handler = "inscribeHandler"
        /\ reqs[r].headers = [id |-> p, signs |-> Requirements(1000000, "/api/inscribe")]
        /\ reqs[r].verified # "unset"}

Sum(f, S) ==
    LET RECURSIVE Acc(_)
        Acc(T) == IF T = {} THEN 0
                  ELSE LET x == CHOOSE y \in T : TRUE IN f[x] + Acc(T \ {x})
    IN  Acc(S)

C10_ActionExactlyOnce ==
    \A r \in Active :
        /\ \A j, k \in 1..Len(reqs[r].calls) :
              j # k => reqs[r].calls[j] # reqs[r].calls[k]
        /\ Len(reqs[r].calls) <= Owed(reqs[r])
        /\ (reqs[r].verified = "true" /\ reqs[r].pc \in {"settlePayment", "done"})
              => reqs[r].calls = [k \in 1..Owed(reqs[r]) |-> k - 1]

C10_Witness ==
    \E r \in Reqs :
        /\ reqs[r].handler = "batchInscribeHandler"
        /\ reqs[r].status = 200
        /\ Len(reqs[r].calls) = MaxBatch

\* The steps of a handler that can throw, as recorded in the history.
ThrowEvents == {"requirements:throw", "verify:throw", "action:throw", "settle:throw"}

Threw(rq) == \E k \in 1..Len(rq.trace) : rq.trace[k] \in ThrowEvents

\* C11: if any step of a protected handler throws, the request is answered
\* with exactly one response, of status 500, whose body has the generic error
\* field and at most a message field; no 200 or 402 is sent for it.
C11_ThrowGets500 ==
    \A r \in Active :
        /\ reqs[r].sends <= 1
        /\ (reqs[r].pc = "done" /\ Threw(reqs[r]))
              => /\ reqs[r].sends = 1
                 /\ reqs[r].status = 500
                 /\ reqs[r].resBody.error = "Internal server error"
                 /\ "error" \in reqs[r].resBody.fields
                 /\ reqs[r].resBody.fields \subseteq {"error", "message"}

\* C12: the response to a settlement failure after a successful action
\* differs, in status or in its error field, from the response to a failure
\* of the action itself.
C12_SettlementFailureDistinct ==
    \A r, q \in Reqs :
        ( /\ reqs[r].pc = "done" /\ reqs[q].pc = "done"
          /\ reqs[r].handler = reqs[q].handler
          /\ HasEvent(reqs[r], "action:return") /\ HasEvent(reqs[r], "settle:throw")
          /\ HasEvent(reqs[q], "action:throw") )
            => \/ reqs[r].status # reqs[q].status
               \/ reqs[r].resBody.error # reqs[q].resBody.error

\* A settlement that did not succeed: it threw, or its receipt reports failure.
SettleFailed(rq) ==
    HasEvent(rq, "settle:throw") \/ HasEvent(rq, "settle:unsuccessful")

\* C13: when settlePayment fails after the action completed, the request
\* ends with the action executed exactly once, settlement attempted exactly
\* once and a response that is not 200.
C13_SettleFailureIsFinal ==
    \A r \in Active :
        (reqs[r].pc = "done" /\ reqs[r].handler = "inscribeHandler"
            /\ SettleFailed(reqs[r]))
            => /\ reqs[r].calls = <<0>>
               /\ Count(reqs[r], "action:return") = 1
               /\ Count(reqs[r], "settle") = 1
               /\ reqs[r].sends = 1
               /\ reqs[r].status # 200

\* C14: the requirements of a request are built from that request's own
\* inputs, exist only while the request is handled, and the value given to
\* settlePayment is the value given to verifyPayment in the same request.
C14_RequirementsFreshAndUnsubstituted ==
    \A r \in Reqs :
        /\ reqs[r].pc = "idle"
              => /\ reqs[r].paymentRequirements = NoRequirements
                 /\ reqs[r].verifyArgs = NoRequirements
                 /\ reqs[r].settleArgs = NoRequirements
        /\ reqs[r].paymentRequirements # NoRequirements
              => reqs[r].paymentRequirements = C6_Inputs(reqs[r])
        /\ HasEvent(reqs[r], "verify")
              => reqs[r].verifyArgs = reqs[r].paymentRequirements
        /\ HasEvent(reqs[r], "settle")
              => /\ reqs[r].settleArgs = reqs[r].verifyArgs
                 /\ reqs[r].settleArgs = reqs[r].paymentRequirements

\* A second request, priced differently from any single inscription, has
\* reached settlement.
C14_Witness ==
    \E r \in Reqs :
        /\ served >= 2
        /\ reqs[r].handler = "batchInscribeHandler"
        /\ HasEvent(reqs[r], "settle")
        /\ reqs[r].settleArgs.amount = 2000000

\* C15: the resource named in a protected endpoint's payment requirements is
\* the path at which its handler is mounted and served.
C15_ResourceIsServedPath ==
    \A r \in Active :
        reqs[r].paymentRequirements # NoRequirements
            => reqs[r].paymentRequirements.resource = ServedPath(reqs[r].handler)

BatchSize(rq) == Len(rq.inscriptions.items)

PricedPerItem(rq, requirements) ==
    /\ requirements.amount = BatchSize(rq) * 1000000
    /\ requirements.amount >= 1000000
    /\ requirements.amount <= 10000000
    /\ requirements.amount % 1000000 = 0

\* C16: the batch endpoint prices N inscriptions at N * 1000000 for every
\* accepted size 1 <= N <= 10; the price built, verified and settled lies in
\* 1000000..10000000 and is a multiple of 1000000.
C16_BatchPrice ==
    \A r \in Active :
        reqs[r].handler = "batchInscribeHandler"
            => /\ reqs[r].pc # "done" => BatchSize(reqs[r]) \in 1..10
               /\ reqs[r].paymentRequirements # NoRequirements
                    => PricedPerItem(reqs[r], reqs[r].paymentRequirements)
               /\ HasEvent(reqs[r], "verify")
                    => PricedPerItem(reqs[r], reqs[r].verifyArgs)
               /\ HasEvent(reqs[r], "settle")
                    => PricedPerItem(reqs[r], reqs[r].settleArgs)

C16_Witness ==
    \E r \in Reqs :
        /\ reqs[r].handler = "batchInscribeHandler"
        /\ BatchSize(reqs[r]) = 10
        /\ reqs[r].pc = "settlePayment"
        /\ reqs[r].settleArgs.amount = 10000000

C20_FailedCallNeverRechallenges ==
    \A r \in Active :
        /\ (HasEvent(reqs[r], "verify:throw") \/ HasEvent(reqs[r], "settle:throw"))
              => /\ reqs[r].pc = "done"
                 /\ reqs[r].sends = 1
                 /\ reqs[r].status = 500
                 /\ reqs[r].resBody.requirements = NoRequirements
                 /\ "requirements" \notin reqs[r].resBody.fields
        /\ HasEvent(reqs[r], "verify")
              => ~(reqs[r].status = 402 /\ "requirements" \in reqs[r].resBody.fields)

C20_Witness ==
    \E r \in Reqs :
        /\ reqs[r].pc = "done"
        /\ HasEvent(reqs[r], "settle:throw")
        /\ reqs[r].status = 500

C19_BridgeRetriesOnce ==
    /\ bridge.state \in {"Idle", "Unattempted", "Challenged", "Retried", "Done"}
    /\ bridge.httpCalls <= 2
    /\ bridge.state = "Idle" => bridge.httpCalls = 0
    /\ bridge.state = "Unattempted"
          => bridge.httpCalls = (IF bridge.pending = 0 THEN 0 ELSE 1)
    /\ bridge.state = "Challenged"
          => /\ bridge.httpCalls = 1 /\ bridge.pending = 0
             /\ bridge.lastStatus = 402
             /\ bridge.requirements # NoRequirements
    /\ bridge.state = "Retried"
          => /\ bridge.httpCalls = 2 /\ bridge.pending # 0
             /\ reqs[bridge.pending].headers.signs = bridge.requirements
    /\ bridge.state = "Done"
          => /\ bridge.httpCalls \in 1..2 /\ bridge.pending = 0
             /\ bridge.outcome = (IF bridge.lastStatus = 200 THEN "success"
                                  ELSE "failure")

\* The retry was rejected and the tool call ended as a failure.
C19_Witness ==
    /\ bridge.state = "Done"
    /\ bridge.httpCalls = 2
    /\ bridge.lastStatus = 402
    /\ bridge.outcome = "failure"

\* A rejection whose only possible cause is a replay: the proof signs exactly
\* the request's requirements, so verification failed on the identifier.
RejectedAsReplay(rq) ==
    /\ rq.pc = "done" /\ rq.verified = "false"
    /\ rq.headers.signs = rq.paymentRequirements

\* A rejection of a proof that does not sign the request's requirements.
RejectedAsInvalid(rq) ==
    /\ rq.pc = "done" /\ rq.verified = "false"
    /\ rq.headers.signs # rq.paymentRequirements

\* C21: a replayed proof is answered with 402, not with the missing-proof
\* challenge, and with a body that differs from the one sent for a proof that
\* is invalid for another cause.
C21_ReplayReasonDistinct ==
    \A r, q \in Reqs :
        /\ RejectedAsReplay(reqs[r])
              => /\ reqs[r].status = 402
                 /\ "requirements" \notin reqs[r].resBody.fields
        /\ (RejectedAsReplay(reqs[r]) /\ RejectedAsInvalid(reqs[q]))
              => reqs[r].resBody # reqs[q].resBody

\* C22: a batch request whose inscriptions field is missing, not an array,
\* empty or longer than 10 is answered 400 before any payment step: no header
\* is extracted, no requirements are built, nothing is verified, run or
\* settled; no other batch request is answered 400.
C22_BatchValidationPrecedesPayment ==
    \A r \in Active :
        reqs[r].handler = "batchInscribeHandler"
            => /\ ( \/ reqs[r].inscriptions.kind \in {"missing", "notArray"}
                    \/ BatchSize(reqs[r]) = 0
                    \/ BatchSize(reqs[r]) > 10 )
                    => /\ reqs[r].pc = "done"
                       /\ reqs[r].status = 400
                       /\ reqs[r].sends = 1
                       /\ reqs[r].paymentHeader = NoHeader
                       /\ reqs[r].paymentRequirements = NoRequirements
                       /\ reqs[r].trace = <<>>
                       /\ reqs[r].calls = <<>>
               /\ reqs[r].status = 400
                    => ~(IsArray(reqs[r].inscriptions) /\ BatchSize(reqs[r]) \in 1..10)

\* An oversized batch that came with a payment header was turned away.
C22_Witness ==
    \E r \in Reqs :
        /\ reqs[r].handler = "batchInscribeHandler"
        /\ BatchSize(reqs[r]) = 11
        /\ reqs[r].headers # NoHeader
        /\ reqs[r].status = 400

\* The index field of each entry of a results or errors list.
Indices(list) == [k \in 1..Len(list) |-> list[k].index]

Increasing(s) == \A j, k \in 1..Len(s) : j < k => s[j] < s[k]

\* C23: in every 200 response of the batch endpoint for N inscriptions each
\* index 0..N-1 appears exactly once across results and errors, increasing
\* within each list; results.length + errors.length = totalProcessed = N,
\* errorCount = errors.length and successCount <= results.length.
C23_BatchSummaryAccountsForEveryItem ==
    \A r \in Active :
        (reqs[r].handler = "batchInscribeHandler" /\ reqs[r].status = 200)
            => LET p == reqs[r].resBody.payload
                   N == BatchSize(reqs[r])
                   ri == Indices(p.results)
                   ei == Indices(p.errors)
               IN  /\ \A n \in 0..(N - 1) :
                         Cardinality({k \in 1..Len(ri) : ri[k] = n})
                         + Cardinality({k \in 1..Len(ei) : ei[k] = n}) = 1
                   /\ Increasing(ri) /\ Increasing(ei)
                   /\ Len(p.results) + Len(p.errors) = p.totalProcessed
                   /\ p.totalProcessed = N
                   /\ p.errorCount = Len(p.errors)
                   /\ p.successCount <= Len(p.results)

\* A batch answered 200 with a success, a failure report and a fault in it.
C23_Witness ==
    \E r \in Reqs :
        /\ reqs[r].handler = "batchInscribeHandler"
        /\ reqs[r].status = 200
        /\ reqs[r].resBody.payload.errorCount = 1
        /\ reqs[r].resBody.payload.successCount = 0
        /\ Len(reqs[r].resBody.payload.results) = 1

\* The public key held in a wallet file.
PublicKeyIn(text) == fromSecretKey(ParseBytes(text)).publicKey

\* C29: a run that finds the wallet file only reads it; if there was no file
\* exactly one keypair is generated and saved, by the first run; every run
\* that loads gets the public key of the file the first run found or saved.
C29_WalletIdempotent ==
    /\ Len(wallet.saved) = wallet.writes
    /\ wallet.writes <= wallet.generated
    /\ wallet.initial.exists
          => /\ wallet.generated = 0 /\ wallet.writes = 0
             /\ wallet.exists /\ wallet.content = wallet.initial.content
             /\ \A k \in 1..Len(wallet.loaded) :
                   wallet.loaded[k] = PublicKeyIn(wallet.initial.content)
    /\ ~wallet.initial.exists
          => /\ wallet.generated <= 1 /\ wallet.writes <= 1
             /\ wallet.exists <=> wallet.writes = 1
             /\ (wallet.runs >= 1 /\ wallet.pc \notin {"generate", "save"})
                   => wallet.writes = 1 /\ wallet.generated = 1
             /\ \A k \in 1..Len(wallet.loaded) :
                   /\ wallet.writes = 1
                   /\ wallet.loaded[k] = wallet.saved[1]
                   /\ wallet.loaded[k] = PublicKeyIn(wallet.content)

\* The first run created the wallet and two later runs loaded it.
C29_Witness ==
    /\ ~wallet.initial.exists
    /\ wallet.runs = 3
    /\ wallet.writes = 1
    /\ Len(wallet.loaded) = 2
    /\ wallet.loaded[2] = wallet.saved[1]

\* C30: in the standalone server the /api/inscribe route is registered once
\* and one X402PaymentHandler exists, however many requests were served.
C30_RouteSetUpOnce ==
    /\ routesRegistered <= 1
    /\ x402Instances <= 1

\* A query string that writes a non-negative integer: digits and nothing else.
IsNonNegativeInteger(str) ==
    str # <<>> /\ \A k \in 1..Len(str) : IsDigit(str[k])

\* C24: the address endpoint answers 400 with 'Index must be a non-negative
\* integer' for every supplied index that is not a non-negative integer, calls
\* generateAddress only with a non-negative integer, and takes an absent
\* index as 0.
C24_IndexValidated ==
    \A r \in Reqs :
        /\ \A k \in 1..Len(addr[r].generateArgs) : addr[r].generateArgs[k] >= 0
        /\ (addr[r].generateArgs # <<>> /\ ~addr[r].index.present)
              => addr[r].generateArgs = <<0>>
        /\ ( /\ addr[r].pc \in {"generateAddress", "done"}
             /\ addr[r].index.present
             /\ ~IsNonNegativeInteger(addr[r].index.str) )
              => /\ addr[r].pc = "done"
                 /\ addr[r].status = 400
                 /\ addr[r].message = "Index must be a non-negative integer"
                 /\ addr[r].generateArgs = <<>>

\* C25: over the server's lifetime initializeMasterKey is invoked at most
\* once, whatever the interleaving of address requests, and generateAddress
\* is never called while the master key is unset.
C25_MasterKeyInitializedOnce ==
    /\ bitcoinService.initializeCalls <= 1
    /\ \A r \in Reqs :
          \A k \in 1..Len(addr[r].keyAtGenerate) : addr[r].keyAtGenerate[k] = "set"

\* A JSON value that is a positive integer: a whole number of at least 1, or
\* its decimal notation as a string.
IsPositiveInteger(v) ==
    \/ v.kind = "number" /\ ~v.half /\ v.whole >= 1
    \/ v.kind = "string" /\ IsNonNegativeInteger(v.str) /\ DecimalValue(v.str) >= 1

\* The number such a value stands for.
IntegerOf(v) == IF v.kind = "number" THEN v.whole ELSE DecimalValue(v.str)

\* C26: the fee-estimate endpoint answers 400 whenever inputCount,
\* outputCount or a supplied feeRate is not a positive integer, uses feeRate
\* 10 only when feeRate is absent, and otherwise answers with the supplied
\* counts and rate, estimatedSize = inputCount*68 + outputCount*31 + 11 and
\* the fee computed for exactly those three values.
C26_FeeEstimateValidated ==
    feeCall.pc = "done"
        => /\ ( \/ ~IsPositiveInteger(feeCall.inputCount)
                \/ ~IsPositiveInteger(feeCall.outputCount)
                \/ (feeCall.feeRate # Absent /\ ~IsPositiveInteger(feeCall.feeRate)) )
                => feeCall.status = 400
           /\ feeCall.status = 200
                => LET rate == IF feeCall.feeRate = Absent THEN 10
                               ELSE IntegerOf(feeCall.feeRate)
                       e == feeCall.estimate
                   IN  /\ e.inputCount = IntegerOf(feeCall.inputCount)
                       /\ e.outputCount = IntegerOf(feeCall.outputCount)
                       /\ e.feeRate = rate
                       /\ e.estimatedSize = (e.inputCount * 68) + (e.outputCount * 31) + 11
                       /\ e.estimatedFee = <<e.inputCount, e.outputCount, rate>>

AllHex(str) == \A k \in 1..Len(str) : str[k] \in HexChars

\* C27: the transaction-lookup endpoint answers 400 for every txid that is
\* not exactly 64 hexadecimal characters and for no other; the transaction
\* it returns echoes the txid and has a blockHash of exactly 64 hexadecimal
\* characters.
C27_TxidValidatedAndEchoed ==
    txCall.pc = "done"
        => /\ txCall.status = 400 <=> ~(Len(txCall.txid) = 64 /\ AllHex(txCall.txid))
           /\ txCall.status = 200
                => /\ txCall.transaction.txid = txCall.txid
                   /\ Len(txCall.transaction.blockHash) = 64
                   /\ AllHex(txCall.transaction.blockHash)

\* A mixed-case txid was accepted and echoed.
C27_Witness ==
    /\ txCall.status = 200
    /\ txCall.txid[1] = "F" /\ txCall.txid[46] = "a"
    /\ txCall.transaction.txid = txCall.txid
    /\ txCall.transaction.blockHash[64] = "F"

\* C28: under /api/beta/ordinals GET /stats is handled by the stats handler
\* and never by the inscription-by-id handler with id 'stats'; GET
\* /address/:address is handled only by the list-by-address handler; every
\* request is handled by at most one handler, and by exactly one if it is
\* GET /stats, GET /:id or GET /address/:address.
C28_DispatchUnambiguous ==
    routeCall.pc = "done"
        => LET path == routeCall.path
               get == routeCall.method = "GET"
               under == path[1] = "ordinals"
           IN  /\ Len(routeCall.invoked) <= 1
               /\ (get /\ under /\ Len(path) = 2 /\ path[2] \in {"stats", "STATS"})
                     => routeCall.invoked = <<"getStatsHandler">>
               /\ routeCall.id \notin {"stats", "STATS"}
               /\ routeCall.invoked = <<"getInscriptionHandler">>
                     => get /\ under /\ Len(path) = 2 /\ routeCall.id = path[2]
               /\ (get /\ under /\ Len(path) = 2 /\ path[2] \notin {"stats", "STATS"})
                     => routeCall.invoked = <<"getInscriptionHandler">>
               /\ (get /\ under /\ Len(path) = 3 /\ path[2] = "address")
                     <=> routeCall.invoked = <<"listInscriptionsByAddressHandler">>

\* GET /api/beta/ordinals/stats went to the stats handler.
C28_Witness ==
    /\ routeCall.method = "GET"
    /\ routeCall.path = <<"ordinals", "stats">>
    /\ routeCall.invoked = <<"getStatsHandler">>

====
